---- MODULE Spec2Model ----
(***************************************************************************)
(* Model of tfbs-scan (src/src/lib.rs): Sequence::from, DNAMatrix::new     *)
(* with its helpers, and DNAMatrix::scan.                                  *)
(*                                                                         *)
(* Numbers.  An f64 is an IEEE-754 binary64 value, held as a record        *)
(*   [cls, sign, man, exp]: cls is "finite", "inf" or "nan", sign is 1 or  *)
(*   -1, and a finite value is sign * man * 2^exp with man a 53-bit        *)
(*   natural number (fewer bits for a subnormal, none for a zero).  man is *)
(*   a sequence of 15-bit limbs, because a 53-bit number does not fit an   *)
(*   integer of the checker.  +, -, *, / round to nearest, ties to even,   *)
(*   as the hardware does, with signed zeros, infinities and NaN; >= and > *)
(*   are false on NaN; f64::max returns the operand that is not NaN, and   *)
(*   its first operand when the two compare equal.                         *)
(*   f64::ln is the platform's libm, whose precision Rust leaves open: its *)
(*   result is one of the two f64 that enclose the logarithm, the nearer   *)
(*   one for most arguments and the other one for some.  LnF(a) is the set *)
(*   of these results, and a libm is a function that gives each argument   *)
(*   one of them: DNAMatrix::new runs with any libm, and within one run    *)
(*   the same argument always gets the same result.                        *)
(*   The sum of an iterator of f64 starts from -0.0.                       *)
(*                                                                         *)
(* Strings.  A &str is a sequence of chars; a char is a one-letter string, *)
(* and NonAscii stands for a char whose UTF-8 encoding takes two bytes.    *)
(* Vec indices are 0-based in the code and 1-based here: code v[i] is      *)
(* v[i + 1] in the model.  Values stored in idxs stay 0-based.             *)
(***************************************************************************)
EXTENDS Integers, Sequences, FiniteSets, TLC

VARIABLES raw, seq, counts, strand, threshold, matrix, scores, calls

vars == <<raw, seq, counts, strand, threshold, matrix, scores, calls>>

(* ------------------------------ bounds -------------------------------- *)

MaxRawLen == 3

MaxRows == 2

MaxScans == 2

(* ------------------------------ helpers ------------------------------- *)

\* the element of a one-element set; The({e : x \in {v}}) is e with x bound
\* to the value of v
The(S) == CHOOSE r \in S : TRUE

Max(a, b) == IF a >= b THEN a ELSE b

Min(a, b) == IF a <= b THEN a ELSE b

\* ---- natural numbers of any size: limbs of 15 bits, least significant
\* ---- first, no zero limb at the top; <<>> is zero
LimbBits == 15

B == 32768

Limb(a, i) == IF 1 <= i /\ i <= Len(a) THEN a[i] ELSE 0

Top(a) ==
    IF \A k \in 1..Len(a) : a[k] = 0 THEN 0
    ELSE IF a[Len(a)] # 0 THEN Len(a)
    ELSE CHOOSE t \in 1..Len(a) : a[t] # 0 /\ \A k \in (t + 1)..Len(a) : a[k] = 0

Trim(a) == The({SubSeq(v, 1, Top(v)) : v \in {a}})

FromNat(n) == Trim(<<n % B, (n \div B) % B, n \div (B * B)>>)

\* the carry into limb i when every v[j] <= 2 * B - 2
Carry(v, i) ==
    IF i = 1 THEN 0
    ELSE IF v[i - 1] >= B THEN 1
    ELSE IF v[i - 1] < B - 1 THEN 0
    ELSE IF \E j \in 1..(i - 2) : v[j] >= B /\ \A k \in (j + 1)..(i - 2) : v[k] = B - 1
         THEN 1 ELSE 0

Propagate(v) ==
    The({Trim(SubSeq([i \in 1..(Len(w) + 1) |-> (Limb(w, i) + Carry(w, i)) % B],
                     1, Len(w) + 1)) : w \in {v}})

\* v with each entry < 2^30 split into limb and overflow into the next limb
Split(v) ==
    The({SubSeq([i \in 1..(Len(w) + 1) |-> (Limb(w, i) % B) + (Limb(w, i - 1) \div B)],
                1, Len(w) + 1) : w \in {v}})

BAdd(a, b) ==
    The({Propagate(SubSeq([i \in 1..Max(Len(x), Len(y)) |-> Limb(x, i) + Limb(y, i)],
                          1, Max(Len(x), Len(y)))) : x \in {a}, y \in {b}})

\* the borrow from limb i for limb differences d
Borrow(d, i) ==
    IF i = 1 THEN 0
    ELSE IF d[i - 1] < 0 THEN 1
    ELSE IF d[i - 1] > 0 THEN 0
    ELSE IF \E j \in 1..(i - 2) : d[j] < 0 /\ \A k \in (j + 1)..(i - 2) : d[k] = 0
         THEN 1 ELSE 0

\* a - b for a >= b
BSub(a, b) ==
    The({Trim(SubSeq([i \in 1..Len(d) |-> (d[i] - Borrow(d, i) + B) % B], 1, Len(d)))
         : d \in {The({SubSeq([i \in 1..Len(x) |-> x[i] - Limb(y, i)], 1, Len(x))
                       : x \in {a}, y \in {b}})}})

\* -1, 0, 1 as a <, =, > b
BCmp(a, b) ==
    The({IF Len(x) > Len(y) THEN 1
         ELSE IF Len(x) < Len(y) THEN -1
         ELSE IF x = y THEN 0
         ELSE IF \E t \in 1..Len(x) : x[t] > y[t] /\ \A k \in (t + 1)..Len(x) : x[k] = y[k]
              THEN 1 ELSE -1 : x \in {a}, y \in {b}})

\* a * k for 0 <= k <= B
BMulSmall(a, k) ==
    The({Propagate(SubSeq([i \in 1..(Len(x) + 1) |->
                              ((Limb(x, i) * m) % B) + ((Limb(x, i - 1) * m) \div B)],
                          1, Len(x) + 1)) : x \in {a}, m \in {k}})

\* the part of column k of the product x * y that comes from x[lo..hi]
RECURSIVE col_sum(_, _, _, _, _)
col_sum(x, y, k, lo, hi) ==
    IF lo > hi THEN 0
    ELSE IF lo = hi
    THEN ((x[lo] * Limb(y, k + 1 - lo)) % B) + ((x[lo] * Limb(y, k - lo)) \div B)
    ELSE col_sum(x, y, k, lo, (lo + hi) \div 2) + col_sum(x, y, k, (lo + hi) \div 2 + 1, hi)

BMul(a, b) ==
    The({Propagate(Split(SubSeq([k \in 1..(Len(x) + Len(y)) |->
                                    col_sum(x, y, k, Max(1, k - Len(y)), Min(Len(x), k))],
                                1, Len(x) + Len(y)))) : x \in {a}, y \in {b}})

\* limb i of a[1] + ... + a[n], before carries
RECURSIVE limb_sum(_, _, _, _)
limb_sum(ts, i, lo, hi) ==
    IF lo = hi THEN Limb(ts[lo], i)
    ELSE limb_sum(ts, i, lo, (lo + hi) \div 2) + limb_sum(ts, i, (lo + hi) \div 2 + 1, hi)

\* the sum of the numbers of a non-empty tuple
BSum(ts) ==
    The({The({Propagate(Split(SubSeq([i \in 1..n |-> limb_sum(t, i, 1, Len(t))], 1, n)))
              : n \in {Max(Len(t[1]), The({Len(t[j]) : j \in {CHOOSE j \in 1..Len(t) :
                                    \A k \in 1..Len(t) : Len(t[k]) <= Len(t[j])}}))}})
         : t \in {ts}})

Zeros(n) == SubSeq([i \in 1..n |-> 0], 1, n)

\* a * 2^n
BShl(a, n) ==
    The({IF x = <<>> THEN x ELSE Zeros(m \div LimbBits) \o BMulSmall(x, 2 ^ (m % LimbBits))
         : x \in {a}, m \in {n}})

\* floor(a / 2^n)
BShr(a, n) ==
    The({IF q >= Len(x) THEN <<>>
         ELSE Trim(SubSeq([i \in 1..(Len(x) - q) |->
                             (x[i + q] \div 2 ^ r) + (Limb(x, i + q + 1) % 2 ^ r) * 2 ^ (LimbBits - r)],
                          1, Len(x) - q))
         : x \in {a}, q \in {n \div LimbBits}, r \in {n % LimbBits}})

\* a mod 2^n # 0
BLowNonZero(a, n) ==
    \/ \E i \in 1..Min(n \div LimbBits, Len(a)) : a[i] # 0
    \/ Limb(a, n \div LimbBits + 1) % 2 ^ (n % LimbBits) # 0

\* bit i of a, bit 0 the least significant
BBit(a, i) == (Limb(a, i \div LimbBits + 1) \div 2 ^ (i % LimbBits)) % 2

\* the number of bits of 0 <= x < B
bits(x) == CHOOSE n \in 0..LimbBits : x < 2 ^ n /\ (n = 0 \/ x >= 2 ^ (n - 1))

BBitLen(a) == IF a = <<>> THEN 0 ELSE LimbBits * (Len(a) - 1) + bits(a[Len(a)])

\* floor(cur / d) for cur < d * B and d[Len(d)] >= B / 2: the estimate from
\* the top limbs is at most 2 too large
quot_digit(cur, d) ==
    The({IF BCmp(BMulSmall(d, q), cur) <= 0 THEN q
         ELSE IF BCmp(BMulSmall(d, q - 1), cur) <= 0 THEN q - 1
         ELSE q - 2
         : q \in {Min(B - 1, (Limb(cur, Len(d) + 1) * B + Limb(cur, Len(d))) \div d[Len(d)])}})

\* long division of a by d, limbs a[i..1] still to bring down
RECURSIVE div_limbs(_, _, _, _, _)
div_limbs(a, d, i, rem, q) ==
    IF i = 0 THEN <<Trim(q), rem # <<>>>>
    ELSE The({The({div_limbs(a, d, i - 1, BSub(cur, BMulSmall(d, qd)), <<qd>> \o q)
                   : qd \in {quot_digit(cur, d)}})
              : cur \in {Trim(<<a[i]>> \o rem)}})

\* <<floor(a / d), whether a mod d # 0>> for d # 0
BDiv(a, d) ==
    The({IF Len(x) < Len(y) THEN <<<<>>, x # <<>>>>
         ELSE div_limbs(x, y, Len(x) - Len(y) + 1,
                        SubSeq(x, Len(x) - Len(y) + 2, Len(x)), <<>>)
         : x \in {BShl(a, LimbBits - bits(d[Len(d)]))},
           y \in {BShl(d, LimbBits - bits(d[Len(d)]))}})

\* ---- f64: sign * man * 2^exp with 2^52 <= man < 2^53, or man < 2^52 and
\* ---- exp = EMin (subnormal), or man = <<>> and exp = 0 (zero)
EMin == -1074

EMax == 1023

Finite(s, m, e) == [cls |-> "finite", sign |-> s, man |-> m, exp |-> e]

Zero(s) == Finite(s, <<>>, 0)

Inf(s) == [cls |-> "inf", sign |-> s, man |-> <<>>, exp |-> 0]

NaN == [cls |-> "nan", sign |-> 1, man |-> <<>>, exp |-> 0]

NEG_INFINITY == Inf(-1)

IsNaN(a) == a.cls = "nan"

IsZero(a) == a.cls = "finite" /\ a.man = <<>>

\* q * 2^e after rounding, for q <= 2^53
Renorm(s, q, e) ==
    IF q = <<>> THEN Zero(s)
    ELSE The({IF m + BBitLen(p) - 1 > EMax THEN Inf(s) ELSE Finite(s, p, m)
              : p \in {IF BBitLen(q) = 54 THEN BShr(q, 1) ELSE q},
                m \in {IF BBitLen(q) = 54 THEN e + 1 ELSE e}})

\* the f64 nearest to s * (big + t) * 2^e, ties to even, where 0 <= t < 1
\* and sticky says whether t # 0
Pack(s, big, e, sticky) ==
    The({IF b = <<>> THEN Zero(s)
         ELSE The({IF r <= 0 THEN Finite(s, BShl(b, -r), e + r)
                   ELSE The({Renorm(s, IF /\ BBit(b, r - 1) = 1
                                           /\ \/ sticky
                                              \/ BLowNonZero(b, r - 1)
                                              \/ BBit(q, 0) = 1
                                        THEN BAdd(q, <<1>>) ELSE q, e + r)
                             : q \in {BShr(b, r)}})
                   : r \in {Max(BBitLen(b) - 53, EMin - e)}})
         : b \in {big}})

\* the two f64 next to s * (big + t) * 2^e, the one toward zero and the one
\* away from it, where 0 < t < 1 and big has more than 53 bits
Enclose(s, big, e) ==
    The({The({{Finite(s, BShr(b, r), e + r), Renorm(s, BAdd(BShr(b, r), <<1>>), e + r)}
              : r \in {BBitLen(b) - 53}})
         : b \in {big}})

\* the integer n, |n| < 2^31, as f64
F(n) == Pack(IF n < 0 THEN -1 ELSE 1, FromNat(IF n < 0 THEN -n ELSE n), 0, FALSE)

\* -1, 0, 1 as |a| <, =, > |b| for finite a and b
CmpMag(a, b) ==
    IF a.man = <<>> \/ b.man = <<>>
    THEN (IF a.man # <<>> THEN 1 ELSE IF b.man # <<>> THEN -1 ELSE 0)
    ELSE The({IF ta > tb THEN 1
              ELSE IF ta < tb THEN -1
              ELSE IF a.exp >= b.exp THEN BCmp(BShl(a.man, a.exp - b.exp), b.man)
              ELSE BCmp(a.man, BShl(b.man, b.exp - a.exp))
              : ta \in {a.exp + BBitLen(a.man)}, tb \in {b.exp + BBitLen(b.man)}})

\* -1, 0, 1 as a <, =, > b for a and b not NaN
Cmp(a, b) ==
    IF a.cls = "inf" \/ b.cls = "inf"
    THEN (IF a.cls = "inf" THEN a.sign ELSE 0) - (IF b.cls = "inf" THEN b.sign ELSE 0)
    ELSE IF IsZero(a) /\ IsZero(b) THEN 0
    ELSE IF a.sign # b.sign THEN (IF IsZero(a) THEN -b.sign ELSE a.sign)
    ELSE a.sign * CmpMag(a, b)

GeF(a, b) == The({~IsNaN(x) /\ ~IsNaN(y) /\ Cmp(x, y) >= 0 : x \in {a}, y \in {b}})

GtF(a, b) == The({~IsNaN(x) /\ ~IsNaN(y) /\ Cmp(x, y) > 0 : x \in {a}, y \in {b}})

\* f64::max: the other operand when one is NaN
MaxF(a, b) ==
    The({IF IsNaN(x) THEN y
         ELSE IF IsNaN(y) THEN x
         ELSE IF Cmp(x, y) >= 0 THEN x ELSE y : x \in {a}, y \in {b}})

NegF(a) == The({IF IsNaN(x) THEN x ELSE [x EXCEPT !.sign = -x.sign] : x \in {a}})

\* hi + lo for finite non-zero hi and lo, hi.exp >= lo.exp; a lo more than 64
\* binary places below hi is taken 64 places below, which rounds the same
AddAligned(hi, lo) ==
    The({IF hi.sign = lo.sign THEN Pack(hi.sign, BAdd(A, lo.man), e, FALSE)
         ELSE The({IF c = 0 THEN Zero(1)
                   ELSE IF c > 0 THEN Pack(hi.sign, BSub(A, lo.man), e, FALSE)
                   ELSE Pack(lo.sign, BSub(lo.man, A), e, FALSE)
                   : c \in {BCmp(A, lo.man)}})
         : A \in {BShl(hi.man, Min(hi.exp - lo.exp, 64))},
           e \in {hi.exp - Min(hi.exp - lo.exp, 64)}})

AddF(a, b) ==
    The({IF IsNaN(x) \/ IsNaN(y) THEN NaN
         ELSE IF x.cls = "inf" THEN (IF y.cls = "inf" /\ y.sign # x.sign THEN NaN ELSE x)
         ELSE IF y.cls = "inf" THEN y
         ELSE IF IsZero(x) /\ IsZero(y)
         THEN Zero(IF x.sign = -1 /\ y.sign = -1 THEN -1 ELSE 1)
         ELSE IF IsZero(x) THEN y
         ELSE IF IsZero(y) THEN x
         ELSE IF x.exp >= y.exp THEN AddAligned(x, y) ELSE AddAligned(y, x)
         : x \in {a}, y \in {b}})

SubF(a, b) == AddF(a, NegF(b))

MulF(a, b) ==
    The({IF IsNaN(x) \/ IsNaN(y) THEN NaN
         ELSE IF x.cls = "inf" \/ y.cls = "inf"
         THEN (IF IsZero(x) \/ IsZero(y) THEN NaN ELSE Inf(x.sign * y.sign))
         ELSE Pack(x.sign * y.sign, BMul(x.man, y.man), x.exp + y.exp, FALSE)
         : x \in {a}, y \in {b}})

DivFinite(x, y) ==
    The({The({Pack(x.sign * y.sign, qs[1], x.exp - y.exp - k, qs[2])
              : qs \in {BDiv(BShl(x.man, k), y.man)}})
         : k \in {Max(0, 56 + BBitLen(y.man) - BBitLen(x.man))}})

DivF(a, b) ==
    The({IF IsNaN(x) \/ IsNaN(y) THEN NaN
         ELSE IF x.cls = "inf" THEN (IF y.cls = "inf" THEN NaN ELSE Inf(x.sign * y.sign))
         ELSE IF y.cls = "inf" THEN Zero(x.sign * y.sign)
         ELSE IF IsZero(y) THEN (IF IsZero(x) THEN NaN ELSE Inf(x.sign * y.sign))
         ELSE IF IsZero(x) THEN Zero(x.sign * y.sign)
         ELSE DivFinite(x, y)
         : x \in {a}, y \in {b}})

\* ---- natural logarithm
\* fixed point: a natural number v stands for v / 2^LnBits
LnBits == 120

FixMul(a, b) == BShr(BMul(a, b), LnBits)

\* floor(2^LnBits / k) for k = 3, 5, ..., 19
OddReciprocal ==
    <<<<21845, 10922, 21845, 10922, 21845, 10922, 21845, 10922>>,
               <<13107, 26214, 19660, 6553, 13107, 26214, 19660, 6553>>,
               <<4681, 4681, 4681, 4681, 4681, 4681, 4681, 4681>>,
               <<29127, 3640, 29127, 3640, 29127, 3640, 29127, 3640>>,
               <<29789, 2978, 29789, 2978, 29789, 2978, 29789, 2978>>,
               <<12603, 30247, 20164, 2520, 12603, 30247, 20164, 2520>>,
               <<4369, 8738, 17476, 2184, 4369, 8738, 17476, 2184>>,
               <<3855, 7710, 15420, 30840, 28912, 25057, 17347, 1927>>,
               <<20695, 1724, 13797, 12072, 31043, 18970, 20695, 1724>>>>

\* floor(2^LnBits * ln(1 + j/16)) for j = 1..16
LnC == <<<<6520, 28395, 4834, 1523, 5427, 278, 17944, 1986>>,
         <<7701, 17405, 8191, 20308, 11870, 17758, 16859, 3859>>,
         <<18293, 7300, 4176, 1854, 31353, 10724, 6200, 5631>>,
         <<29508, 19454, 16631, 16989, 17461, 26278, 31715, 7311>>,
         <<2946, 2103, 32087, 29592, 896, 21971, 23723, 8910>>,
         <<19728, 6627, 13179, 8559, 12447, 3631, 3010, 10435>>,
         <<15845, 22175, 17727, 7241, 423, 24040, 22518, 11891>>,
         <<18566, 31234, 22374, 22225, 4860, 24524, 9196, 13286>>,
         <<26249, 6141, 495, 1211, 2155, 19789, 30663, 14623>>,
         <<22364, 6375, 15121, 27536, 15148, 22403, 3935, 15909>>,
         <<26267, 15871, 30566, 9765, 16731, 9514, 26056, 17145>>,
         <<13810, 15932, 13502, 31510, 26654, 28736, 16060, 18337>>,
         <<19950, 22125, 5182, 28004, 24335, 20240, 11878, 19487>>,
         <<15306, 17921, 6238, 6447, 22322, 18034, 8144, 20598>>,
         <<11943, 23343, 5602, 7666, 21879, 23493, 23116, 21672>>,
         <<29430, 12295, 3790, 24143, 30618, 31289, 1533, 22713>>>>

LN_2 == LnC[16]

\* atanh(z) = z + z^3/3 + z^5/5 + ... + z^19/19 for 0 <= z <= 1/64
Atanh(z) ==
    The({ The({ The({ The({ The({
        BSum(<<z, FixMul(t3, OddReciprocal[1]), FixMul(t5, OddReciprocal[2]),
               FixMul(t7, OddReciprocal[3]), FixMul(t9, OddReciprocal[4]),
               FixMul(t11, OddReciprocal[5]), FixMul(t13, OddReciprocal[6]),
               FixMul(t15, OddReciprocal[7]), FixMul(t17, OddReciprocal[8]),
               FixMul(t19, OddReciprocal[9])>>)
        : t17 \in {FixMul(z, z16)}, t19 \in {FixMul(t3, z16)} })
        : z16 \in {FixMul(z8, z8)}, t9 \in {FixMul(z, z8)}, t11 \in {FixMul(t3, z8)},
          t13 \in {FixMul(t5, z8)}, t15 \in {FixMul(t7, z8)} })
        : z8 \in {FixMul(z4, z4)}, t5 \in {FixMul(z, z4)}, t7 \in {FixMul(t3, z4)} })
        : z4 \in {FixMul(z2, z2)}, t3 \in {FixMul(z, z2)} })
        : z2 \in {FixMul(z, z)} })

\* the two f64 that enclose ln(m * 2^e) for 2^52 <= m < 2^53 and
\* m * 2^e # 1; the logarithm is
\* (e + 52) ln 2 + ln c + 2 atanh((y - c) / (y + c)) with y = m / 2^52 and
\* c = 1 + j/16 the sixteenth nearest to y
LnNormal(m, e) ==
    The({ The({ The({ The({
        IF BCmp(pos, neg) >= 0 THEN Enclose(1, BSub(pos, neg), -LnBits)
        ELSE Enclose(-1, BSub(neg, pos), -LnBits)
        : pos \in {BSum(<<IF e + 52 > 0 THEN BMulSmall(LN_2, e + 52) ELSE <<>>,
                         IF j = 0 THEN <<>> ELSE LnC[j],
                         IF up THEN a ELSE <<>>>>)},
          neg \in {BSum(<<IF e + 52 < 0 THEN BMulSmall(LN_2, -(e + 52)) ELSE <<>>,
                         IF up THEN <<>> ELSE a>>)} })
        : a \in {BMulSmall(Atanh(BDiv(BShl(IF up THEN BSub(m, c) ELSE BSub(c, m), LnBits),
                                      BAdd(m, c))[1]), 2)} })
        : up \in {BCmp(m, c) >= 0} })
        : j \in {((m[4] \div 8) % 16) + ((m[4] \div 4) % 2)},
          c \in {BShl(FromNat(16 + ((m[4] \div 8) % 16) + ((m[4] \div 4) % 2)), 48)} })

\* the values f64::ln may return for a
LnF(a) ==
    The({IF IsNaN(x) THEN {NaN}
         ELSE IF IsZero(x) THEN {NEG_INFINITY}
         ELSE IF x.sign = -1 THEN {NaN}
         ELSE IF x.cls = "inf" THEN {x}
         ELSE IF x = F(1) THEN {Zero(1)}
         ELSE The({LnNormal(BShl(x.man, s), x.exp - s) : s \in {53 - BBitLen(x.man)}})
         : x \in {a}})

\* the libms on the arguments args: functions that give each argument one of
\* the values of its logarithm
RECURSIVE Libm(_)
Libm(args) ==
    IF args = {} THEN {<<>>}
    ELSE The({{(a :> v) @@ ln : v \in LnF(a), ln \in Libm(args \ {a})}
              : a \in {CHOOSE x \in args : TRUE}})

\* the f64 nearest to n / d
Ratio(n, d) == DivF(F(n), F(d))

\* Iterator::sum over f64
RECURSIVE sum_to(_, _)
sum_to(v, n) == IF n = 0 THEN Zero(-1) ELSE AddF(sum_to(v, n - 1), v[n])

SumF(v) == The({sum_to(x, Len(x)) : x \in {v}})

\* Iterator::collect of the n values of f into a Vec
collect(f, n) == SubSeq(f, 1, n)

(* ------------------------------ Sequence ------------------------------ *)

Gap == "-"

NonAscii == "e_acute"

len_one(c) == 1

len_utf8(c) == IF c = NonAscii THEN 2 ELSE 1

RECURSIVE char_indices(_, _, _)
char_indices(s, k, off) ==
    IF k > Len(s) THEN <<>>
    ELSE <<<<off, s[k]>>>> \o char_indices(s, k + 1, off + len_utf8(s[k]))

From(s) ==
    LET kept == SelectSeq(char_indices(s, 1, 0), LAMBDA b : b[2] # Gap)
    IN  [idxs  |-> [j \in 1..Len(kept) |-> kept[j][1]],
         bases |-> [j \in 1..Len(kept) |-> kept[j][2]]]

(* ------------------------------ DNAMatrix ----------------------------- *)

Forward == "Forward"

Reverse == "Reverse"

Strand == {Forward, Reverse}

Rev(v) == collect([k \in 1..Len(v) |-> v[Len(v) + 1 - k]], Len(v))

rev_rows_only(v) == Rev(v)

comp_rev_counts(v) == collect([k \in 1..Len(v) |-> Rev(v[Len(v) + 1 - k])], Len(v))

row_sum(position) == SumF(position)

RECURSIVE fold_max_to(_, _, _)
fold_max_to(init, v, n) == IF n = 0 THEN init ELSE MaxF(fold_max_to(init, v, n - 1), v[n])

fold_max(init, v) == The({fold_max_to(init, x, Len(x)) : x \in {v}})

max_count(cnts) ==
    fold_max(NEG_INFINITY, collect([k \in 1..Len(cnts) |-> row_sum(cnts[k])], Len(cnts)))

malformed_short(position) == Len(position) < 4

malformed(position) == Len(position) # 4

probs_row(position, mc) ==
    collect([j \in 1..Len(position) |-> DivF(position[j], mc)], Len(position))
        \o <<SubF(F(1), DivF(row_sum(position), mc))>>

calculate_probs(cnts) ==
    The({IF \E k \in 1..Len(cnts) : malformed(cnts[k])
         THEN [st |-> "panic", msg |-> "Matrix has {} values when 4 is expected.",
               len |-> Len(cnts[CHOOSE k \in 1..Len(cnts) :
                                   /\ malformed(cnts[k])
                                   /\ \A o \in 1..(k - 1) : ~malformed(cnts[o])])]
         ELSE [st |-> "ok",
               v  |-> collect([k \in 1..Len(cnts) |-> probs_row(cnts[k], mc)], Len(cnts))]
         : mc \in {max_count(cnts)}})

\* the arguments calculate_conservation calls f64::ln with
ln_args(probs) ==
    UNION {{F(Len(probs[k]))} \cup {probs[k][j] : j \in {i \in 1..Len(probs[k]) :
                                                          GtF(probs[k][i], F(0))}}
           : k \in 1..Len(probs)}

RECURSIVE entropy_fold(_, _, _)
entropy_fold(position, n, ln) ==
    IF n = 0 THEN F(0)
    ELSE The({IF GtF(position[n], F(0))
              THEN AddF(acc, MulF(position[n], ln[position[n]]))
              ELSE acc
              : acc \in {entropy_fold(position, n - 1, ln)}})

conservation_of(position, ln) ==
    AddF(DivF(entropy_fold(position, Len(position), ln), ln[F(Len(position))]), F(1))

calculate_conservation(probs, ln) ==
    collect([k \in 1..Len(probs) |-> conservation_of(probs[k], ln)], Len(probs))

max_base(p) == fold_max(NEG_INFINITY, SubSeq(p, 1, Min(4, Len(p))))

RECURSIVE max_score_fold(_, _, _)
max_score_fold(probs, conservation, n) ==
    IF n = 0 THEN F(0)
    ELSE AddF(max_score_fold(probs, conservation, n - 1),
              MulF(conservation[n], max_base(probs[n])))

calculate_max_score(probs, conservation) == max_score_fold(probs, conservation, Len(probs))

\* the probs of DNAMatrix::new, or its panic
new_probs(cnts, strnd) ==
    IF strnd = Forward THEN calculate_probs(cnts)
    ELSE calculate_probs(comp_rev_counts(cnts))

\* the arguments DNAMatrix::new calls f64::ln with
new_ln_args(cnts, strnd) ==
    The({IF probs.st = "panic" THEN {} ELSE ln_args(probs.v)
         : probs \in {new_probs(cnts, strnd)}})

new(name, thr, cnts, strnd, ln) ==
    The({IF probs.st = "panic" THEN probs
         ELSE The({[st           |-> "ok",
                    name         |-> name,
                    length       |-> Len(cnts),
                    probs        |-> probs.v,
                    conservation |-> conservation,
                    max_score    |-> calculate_max_score(probs.v, conservation),
                    threshold    |-> thr,
                    strand       |-> strnd]
                   : conservation \in {calculate_conservation(probs.v, ln)}})
         : probs \in {new_probs(cnts, strnd)}})

(* ------------------------------ scan ---------------------------------- *)

lookup_upper_only(b) ==
    CASE b = "A" -> 0
      [] b = "C" -> 1
      [] b = "G" -> 2
      [] b = "T" -> 3
      [] OTHER -> -1

lookup(b) ==
    CASE b \in {"A", "a"} -> 0
      [] b \in {"C", "c"} -> 1
      [] b \in {"G", "g"} -> 2
      [] b \in {"T", "t"} -> 3
      [] OTHER -> -1

offsets_forward_only(m) == <<1, m.length>>

offsets(m) == IF m.strand = Forward THEN <<1, m.length>> ELSE <<m.length, 1>>

RECURSIVE window_score(_, _, _)
window_score(m, w, n) ==
    IF n = 0 THEN [st |-> "ok", v |-> F(0)]
    ELSE The({IF acc.st = "panic" THEN acc
              ELSE IF lookup(w[n]) = -1
              THEN [st |-> "panic", msg |-> "DNA base unknown {}", b |-> w[n]]
              ELSE [st |-> "ok",
                    v  |-> AddF(acc.v, MulF(m.probs[n][lookup(w[n]) + 1],
                                            m.conservation[n]))]
              : acc \in {window_score(m, w, n - 1)}})

windows(bases, size) ==
    [i \in 1..(IF Len(bases) >= size THEN Len(bases) - size + 1 ELSE 0)
        |-> SubSeq(bases, i, i + size - 1)]

make_score_ungapped(sq, i, s, e, raw_score, max_score) ==
    [seq_start  |-> i + s,
     seq_end    |-> i + e,
     algn_start |-> i + s,
     algn_end   |-> i + e,
     score      |-> DivF(raw_score, max_score)]

make_score(sq, i, s, e, raw_score, max_score) ==
    [seq_start  |-> i + s,
     seq_end    |-> i + e,
     algn_start |-> sq.idxs[i + s - 1 + 1] + 1,
     algn_end   |-> sq.idxs[i + e - 1 + 1] + 1,
     score      |-> DivF(raw_score, max_score)]

keep_strict(v, thr) == GtF(v.score, thr)

keep(v, thr) == GeF(v.score, thr)

scan(m, sq) ==
    IF m.length = 0
    THEN [st |-> "panic", msg |-> "window size must be non-zero"]
    ELSE The({IF \E i \in 1..Len(raws) : raws[i].st = "panic"
              THEN raws[CHOOSE i \in 1..Len(raws) :
                           /\ raws[i].st = "panic"
                           /\ \A o \in 1..(i - 1) : raws[o].st = "ok"]
              ELSE [st |-> "ok",
                    v  |-> SelectSeq(
                               collect([i \in 1..Len(raws) |->
                                           make_score(sq, i - 1, offsets(m)[1], offsets(m)[2],
                                                      raws[i].v, m.max_score)], Len(raws)),
                               LAMBDA v : keep(v, m.threshold))]
              : raws \in {The({collect([i \in 1..Len(w) |-> window_score(m, w[i], m.length)],
                                       Len(w))
                               : w \in {windows(sq.bases, m.length)}})}})

(* ------------------------------ inputs -------------------------------- *)

Bases == {"A", "C", "G", "T", "a", "c", "g", "t"}

Chars == Bases \cup {Gap, "N", NonAscii}

ScanChars == {"A", "t", Gap, "N"}

Strings(alphabet) == UNION {[1..n -> alphabet] : n \in 0..MaxRawLen}

\* a row with all its mass on A and a row uniform over the four bases
ScanRows ==
    {<<F(5), F(0), F(0), F(0)>>,
     <<F(1), F(1), F(1), F(1)>>}

\* the tables of these rows, and the tables of rows of zeros
ScanTables ==
    UNION {[1..n -> ScanRows] \cup {[k \in 1..n |-> <<F(0), F(0), F(0), F(0)>>]}
           : n \in 0..MaxRows}

Thresholds == {F(0), Ratio(1, 2), F(1)}

\* the rows of the table of the tests, a row of zeros, and a row of fractions
\* whose sum depends on the order of summation
WellFormedRows ==
    {<<F(2), F(0), F(0), F(0)>>,
     <<F(1), F(0), F(0), F(1)>>,
     <<F(1), F(0), F(0), F(0)>>,
     <<Ratio(1, 2), Ratio(1, 2), Ratio(1, 2), Ratio(1, 2)>>,
     <<F(0), F(0), F(0), F(0)>>,
     <<Ratio(3, 10), Ratio(3, 10), Ratio(3, 10), Ratio(1, 10)>>}

MalformedRows == {[j \in 1..n |-> F(1)] : n \in {3, 5}}

Rows == WellFormedRows \cup MalformedRows

Tables == UNION {[1..n -> Rows] : n \in 0..MaxRows}

(* ------------------------------ the program --------------------------- *)

None == [st |-> "none"]

Init ==
    /\ raw = <<>>
    /\ seq = None
    /\ counts = <<>>
    /\ strand = Forward
    /\ threshold = F(0)
    /\ matrix = None
    /\ scores = None
    /\ calls = 0

SequenceFrom(strings) ==
    /\ seq = None
    /\ \E r \in strings :
          /\ raw' = r
          /\ seq' = [st |-> "ok", v |-> From(r)]
    /\ UNCHANGED <<counts, strand, threshold, matrix, scores, calls>>

\* the callers in the source build the matrix before the sequence
MatrixNew(tables, strands, thresholds) ==
    /\ matrix = None
    /\ seq = None
    /\ \E c \in tables, s \in strands, t \in thresholds :
          /\ counts' = c
          /\ strand' = s
          /\ threshold' = t
          /\ \E ln \in Libm(new_ln_args(c, s)) :
                matrix' = new("teste", t, c, s, ln)
    /\ UNCHANGED <<raw, seq, scores, calls>>

\* scan borrows the matrix and the sequence by shared reference and assigns
\* to neither; the Vec<Score> it returns is built anew by each call
Scan ==
    /\ seq.st = "ok"
    /\ matrix.st = "ok"
    /\ calls < MaxScans
    /\ scores' = scan(matrix, seq.v)
    /\ calls' = calls + 1
    /\ UNCHANGED <<raw, seq, counts, strand, threshold, matrix>>

Next ==
    \/ MatrixNew(ScanTables, Strand, Thresholds)
    \/ SequenceFrom(Strings(ScanChars))
    \/ Scan

Spec == Init /\ [][Next]_vars

\* Sequence::from alone, on a string the caller holds
InitSeq ==
    /\ raw \in Strings(Chars)
    /\ seq = None
    /\ counts = <<>>
    /\ strand = Forward
    /\ threshold = F(0)
    /\ matrix = None
    /\ scores = None
    /\ calls = 0

NextSeq == SequenceFrom({raw})

SpecSeq == InitSeq /\ [][NextSeq]_vars

\* DNAMatrix::new alone, on a counts table the caller holds
InitMatrix ==
    /\ raw = <<>>
    /\ seq = None
    /\ counts \in Tables
    /\ strand \in Strand
    /\ threshold = Ratio(1, 2)
    /\ matrix = None
    /\ scores = None
    /\ calls = 0

NextMatrix == MatrixNew({counts}, {strand}, {threshold})

SpecMatrix == InitMatrix /\ [][NextMatrix]_vars

(* ------------------------------ claims -------------------------------- *)

Abs(x) == IF x < 0 THEN -x ELSE x

NonGapBefore(r, p) == Cardinality({q \in 1..p : r[q] # Gap})

\* 1-based place, counted in chars, of the j-th char of r that is not a gap
NthNonGap(r, j) == CHOOSE p \in 1..Len(r) : r[p] # Gap /\ NonGapBefore(r, p) = j

WindowOf(sc) == (IF sc.seq_start <= sc.seq_end THEN sc.seq_start ELSE sc.seq_end) - 1

Normalized(i) ==
    DivF(window_score(matrix, SubSeq(seq.v.bases, i + 1, i + matrix.length),
                      matrix.length).v,
         matrix.max_score)

Recognized(sq) == \A j \in 1..Len(sq.bases) : sq.bases[j] \in Bases

SwapCase(b) ==
    CASE b = "A" -> "a" [] b = "a" -> "A"
      [] b = "C" -> "c" [] b = "c" -> "C"
      [] b = "G" -> "g" [] b = "g" -> "G"
      [] b = "T" -> "t" [] b = "t" -> "T"
      [] OTHER -> b

\* C1: every emitted Score of window i has seqStart = i + s, seqEnd = i + e,
\* alignStart = positions[i + s - 1] + 1, alignEnd = positions[i + e - 1] + 1 with
\* (s, e) = (1, L) Forward and (L, 1) Reverse; the alignment coordinates are the
\* 1-based places in the gapped string of the window's first and last retained
\* bases, and the window covers exactly L bases.
C1_Coordinates ==
    scores.st = "ok" =>
        \A k \in 1..Len(scores.v) :
            LET sc == scores.v[k]
                L  == matrix.length
                s  == IF matrix.strand = Forward THEN 1 ELSE L
                e  == IF matrix.strand = Forward THEN L ELSE 1
            IN  \E i \in 0..(Len(seq.v.bases) - L) :
                    /\ sc.seq_start = i + s
                    /\ sc.seq_end = i + e
                    /\ sc.algn_start = seq.v.idxs[i + s] + 1
                    /\ sc.algn_end = seq.v.idxs[i + e] + 1
                    /\ sc.algn_start = NthNonGap(raw, sc.seq_start)
                    /\ sc.algn_end = NthNonGap(raw, sc.seq_end)
                    /\ raw[sc.algn_start] = seq.v.bases[sc.seq_start]
                    /\ raw[sc.algn_end] = seq.v.bases[sc.seq_end]
                    /\ Abs(sc.seq_end - sc.seq_start) + 1 = L

\* a Reverse scan of a two-base motif reported a window with a gap inside it
C1_Witness ==
    /\ scores.st = "ok"
    /\ matrix.strand = Reverse
    /\ matrix.length = 2
    /\ \E k \in 1..Len(scores.v) :
          /\ scores.v[k].algn_start = scores.v[k].algn_end + 2
          /\ scores.v[k].seq_start = scores.v[k].seq_end + 1

\* C2 as stated: for every matrix of length >= 1, a Forward Score has
\* seqStart < seqEnd and alignStart < alignEnd, a Reverse Score has
\* seqStart > seqEnd and alignStart > alignEnd.
C2_StrictOrientation ==
    (scores.st = "ok" /\ matrix.length >= 1) =>
        \A k \in 1..Len(scores.v) :
            LET sc == scores.v[k]
            IN  IF matrix.strand = Forward
                THEN sc.seq_start < sc.seq_end /\ sc.algn_start < sc.algn_end
                ELSE sc.seq_start > sc.seq_end /\ sc.algn_start > sc.algn_end

\* C2 amended: the strict ordering holds for every matrix of length >= 2; for a
\* matrix of length 1 every Score has seqStart = seqEnd and alignStart = alignEnd
\* on both strands.
C2_OrientationFromLengthTwo ==
    (scores.st = "ok" /\ matrix.length >= 1) =>
        \A k \in 1..Len(scores.v) :
            LET sc == scores.v[k]
            IN  IF matrix.length = 1
                THEN sc.seq_start = sc.seq_end /\ sc.algn_start = sc.algn_end
                ELSE IF matrix.strand = Forward
                     THEN sc.seq_start < sc.seq_end /\ sc.algn_start < sc.algn_end
                     ELSE sc.seq_start > sc.seq_end /\ sc.algn_start > sc.algn_end

\* a Reverse scan of a motif of length >= 2 and a scan of a motif of length 1
\* both emit: here the Reverse one, with two Scores
C2_Witness ==
    /\ scores.st = "ok"
    /\ matrix.strand = Reverse
    /\ matrix.length >= 2
    /\ Len(scores.v) >= 2

\* C3: the result holds exactly one Score for each window index i in
\* 0 ..= len(bases) - L whose normalized score is >= threshold and none for any
\* other window, in ascending order of i on both strands; with fewer than L
\* bases the result is empty.  (L >= 1, the matrix lengths of the data model.)
C3_QualifyingWindows ==
    (calls >= 1 /\ matrix.length >= 1) =>
        LET n == Len(seq.v.bases)
            L == matrix.length
            Q == {i \in 0..(n - L) : GeF(Normalized(i), matrix.threshold)}
        IN  /\ n < L => scores = [st |-> "ok", v |-> <<>>]
            /\ scores.st = "ok" =>
                  /\ Len(scores.v) = Cardinality(Q)
                  /\ \A k \in 1..Len(scores.v) :
                        /\ WindowOf(scores.v[k]) \in Q
                        /\ scores.v[k].score = Normalized(WindowOf(scores.v[k]))
                  /\ \A k \in 1..(Len(scores.v) - 1) :
                        WindowOf(scores.v[k]) < WindowOf(scores.v[k + 1])

\* two windows were reported around one that was filtered out, and one of the
\* reported windows scores exactly the threshold
C3_Witness ==
    /\ scores.st = "ok"
    /\ Len(scores.v) = 2
    /\ WindowOf(scores.v[2]) = WindowOf(scores.v[1]) + 2
    /\ scores.v[1].score = matrix.threshold
    /\ matrix.strand = Reverse

\* C6: scan aborts with the unrecognized-base error, returning no Score at all,
\* exactly when the gap-free sequence has at least L bases and holds a character
\* other than A, C, G, T, a, c, g, t; with fewer than L bases it never does; and
\* upper and lower case of a base score identically.  (L >= 1.)
C6_UnknownBase ==
    (calls >= 1 /\ matrix.length >= 1) =>
        /\ (scores.st = "panic" /\ scores.msg = "DNA base unknown {}")
              <=> (Len(seq.v.bases) >= matrix.length /\ ~Recognized(seq.v))
        /\ scores.st = "panic" => DOMAIN scores = {"st", "msg", "b"}
        /\ scores.st \in {"ok", "panic"}
        /\ scan(matrix, [seq.v EXCEPT !.bases =
                            [j \in 1..Len(seq.v.bases) |-> SwapCase(seq.v.bases[j])]])
              = scores

\* the scan aborted although its first window held only recognized bases and
\* scored at or above the threshold
C6_Witness ==
    /\ scores.st = "panic"
    /\ matrix.length >= 1
    /\ Len(seq.v.bases) > matrix.length
    /\ \A j \in 1..matrix.length : seq.v.bases[j] \in Bases
    /\ GeF(Normalized(0), matrix.threshold)

\* C4 as stated: construction always succeeds; bases are the chars of the raw
\* string other than '-', in order; positions[j] is the 0-based index in the raw
\* string of bases[j]; the two have one length; positions increase strictly; no
\* '-' is in bases; chars other than A/C/G/T are kept.
C4_PositionsAreCharIndices ==
    seq # None =>
        /\ seq.st = "ok"
        /\ seq.v.bases = SelectSeq(raw, LAMBDA c : c # Gap)
        /\ Len(seq.v.idxs) = Len(seq.v.bases)
        /\ \A j \in 1..Len(seq.v.bases) :
              /\ seq.v.bases[j] # Gap
              /\ seq.v.idxs[j] = NthNonGap(raw, j) - 1
        /\ \A j \in 1..(Len(seq.v.idxs) - 1) : seq.v.idxs[j] < seq.v.idxs[j + 1]

Utf8Width(c) == IF c = NonAscii THEN 2 ELSE 1

RECURSIVE BytesBefore(_, _)
BytesBefore(r, p) == IF p = 1 THEN 0 ELSE BytesBefore(r, p - 1) + Utf8Width(r[p - 1])

\* C4 amended: as C4, with positions[j] the 0-based byte offset, in the UTF-8
\* raw string, at which bases[j] starts; it is the char index of bases[j] when
\* every char before it takes one byte.
C4_PositionsAreByteOffsets ==
    seq # None =>
        /\ seq.st = "ok"
        /\ seq.v.bases = SelectSeq(raw, LAMBDA c : c # Gap)
        /\ Len(seq.v.idxs) = Len(seq.v.bases)
        /\ \A j \in 1..Len(seq.v.bases) :
              /\ seq.v.bases[j] # Gap
              /\ seq.v.idxs[j] = BytesBefore(raw, NthNonGap(raw, j))
              /\ (\A q \in 1..(NthNonGap(raw, j) - 1) : raw[q] # NonAscii)
                    => seq.v.idxs[j] = NthNonGap(raw, j) - 1
        /\ \A j \in 1..(Len(seq.v.idxs) - 1) : seq.v.idxs[j] < seq.v.idxs[j + 1]

\* a Sequence was built from a two-byte char, a gap and a base: the base sits
\* at char index 2 and byte offset 3
C4_Witness ==
    /\ seq.st = "ok"
    /\ Len(raw) = 3
    /\ Len(seq.v.bases) = 2
    /\ seq.v.bases[1] = NonAscii
    /\ seq.v.idxs[2] = 3

\* C5: construction aborts with the malformed-matrix error, producing no
\* matrix, whenever some row of the counts table does not have exactly 4 values,
\* wherever the row is and on both strands; with every row of 4 values it does
\* not raise the error.
C5_MalformedRowAborts ==
    matrix # None =>
        /\ (\E k \in 1..Len(counts) : Len(counts[k]) # 4)
              <=> (/\ matrix.st = "panic"
                   /\ matrix.msg = "Matrix has {} values when 4 is expected.")
        /\ matrix.st = "panic" => DOMAIN matrix = {"st", "msg", "len"}
        /\ matrix.st \in {"ok", "panic"}

\* a Reverse construction aborted on a table whose only malformed row is its
\* last one, a row of five values
C5_Witness ==
    /\ matrix.st = "panic"
    /\ strand = Reverse
    /\ Len(counts) = 2
    /\ Len(counts[1]) = 4
    /\ Len(counts[2]) = 5

\* the sum of the four counts of a row, in the order of the row
RowTotal(position) ==
    AddF(AddF(AddF(AddF(F(0), position[1]), position[2]), position[3]), position[4])

\* the largest row total of a non-empty table
MaxTotal(cnts) ==
    CHOOSE t \in {RowTotal(cnts[k]) : k \in 1..Len(cnts)} :
        \A k \in 1..Len(cnts) : GeF(t, RowTotal(cnts[k]))

\* C7 as stated: for every table of rows of 4 non-negative values and Forward
\* strand the matrix has `length` probs rows of 5 values, value / maxTotal four
\* times and then 1 - rowSum / maxTotal; every value is non-negative and each
\* row sums to exactly 1.
C7_ProbsRowsSumToOne ==
    (matrix.st = "ok" /\ strand = Forward) =>
        /\ Len(matrix.probs) = matrix.length
        /\ matrix.length = Len(counts)
        /\ \A k \in 1..Len(counts) :
              \E t \in {MaxTotal(counts)} :
                 LET p == matrix.probs[k]
                 IN  /\ Len(p) = 5
                     /\ \A j \in 1..4 : p[j] = DivF(counts[k][j], t)
                     /\ p[5] = SubF(F(1), DivF(RowTotal(counts[k]), t))
                     /\ \A j \in 1..5 : GeF(p[j], F(0))
                     /\ SumF(p) = F(1)

\* every row of the table has the same total when its four counts are summed
\* in the opposite order
SameTotalBothWays(cnts) ==
    \A k \in 1..Len(cnts) : RowTotal(Rev(cnts[k])) = RowTotal(cnts[k])

\* C8 as stated: the reverse-complement transform (rows in reverse order, the
\* 4 values of each row reversed) is an involution on well-formed tables and
\* keeps maxTotal; the Reverse matrix of the transformed table has the probs and
\* conservation of the Forward matrix of the table; and row k of the Reverse
\* matrix of a table is row L-1-k of its Forward matrix with the four base
\* probabilities reversed and the same fifth value.
C8_ReverseComplement ==
    matrix.st = "ok" =>
        \E rc \in {comp_rev_counts(counts)} :
        \E fp \in {new_probs(counts, Forward).v} :
        \E rp \in {new_probs(counts, Reverse).v} :
            LET L == Len(counts)
            IN  /\ Len(rc) = L
                /\ \A k \in 1..L :
                      rc[k] = <<counts[L + 1 - k][4], counts[L + 1 - k][3],
                                counts[L + 1 - k][2], counts[L + 1 - k][1]>>
                /\ comp_rev_counts(rc) = counts
                /\ max_count(rc) = max_count(counts)
                /\ matrix.probs = IF strand = Forward THEN fp ELSE rp
                /\ new_probs(rc, Reverse).v = fp
                /\ strand = Forward =>
                      \A ln \in Libm(ln_args(matrix.probs)) :
                          matrix.conservation = calculate_conservation(matrix.probs, ln) =>
                              \E rr \in {new("teste", threshold, rc, Reverse, ln)} :
                                  /\ rr.strand = Reverse
                                  /\ rr.probs = matrix.probs
                                  /\ rr.conservation = matrix.conservation
                /\ \A k \in 1..L :
                      /\ \A j \in 1..4 : rp[k][j] = fp[L + 1 - k][5 - j]
                      /\ rp[k][5] = fp[L + 1 - k][5]

\* C8 amended: the transform is an involution on well-formed tables and the
\* Reverse matrix of the transformed table has the probs and, with the same
\* libm, the conservation of the Forward matrix of the table; maxTotal is
\* kept, and row k of the Reverse matrix is row L-1-k of the Forward matrix
\* with the four base probabilities reversed and the same fifth value, when
\* every row of the table has the same f64 total summed in either order.
C8_ReverseComplementSameTotals ==
    matrix.st = "ok" =>
        \E rc \in {comp_rev_counts(counts)} :
        \E fp \in {new_probs(counts, Forward).v} :
        \E rp \in {new_probs(counts, Reverse).v} :
            LET L == Len(counts)
            IN  /\ Len(rc) = L
                /\ \A k \in 1..L :
                      rc[k] = <<counts[L + 1 - k][4], counts[L + 1 - k][3],
                                counts[L + 1 - k][2], counts[L + 1 - k][1]>>
                /\ comp_rev_counts(rc) = counts
                /\ matrix.probs = IF strand = Forward THEN fp ELSE rp
                /\ new_probs(rc, Reverse).v = fp
                /\ strand = Forward =>
                      \A ln \in Libm(ln_args(matrix.probs)) :
                          matrix.conservation = calculate_conservation(matrix.probs, ln) =>
                              \E rr \in {new("teste", threshold, rc, Reverse, ln)} :
                                  /\ rr.strand = Reverse
                                  /\ rr.probs = matrix.probs
                                  /\ rr.conservation = matrix.conservation
                /\ SameTotalBothWays(counts) =>
                      /\ max_count(rc) = max_count(counts)
                      /\ \A k \in 1..L :
                            /\ \A j \in 1..4 : rp[k][j] = fp[L + 1 - k][5 - j]
                            /\ rp[k][5] = fp[L + 1 - k][5]

\* a Forward matrix was built from two different rows, neither a palindrome,
\* one of them with unassigned mass, each with the same total both ways
C8_Witness ==
    /\ matrix.st = "ok"
    /\ strand = Forward
    /\ Len(counts) = 2
    /\ counts[1] # counts[2]
    /\ counts[1] # Rev(counts[1])
    /\ counts[2] # Rev(counts[2])
    /\ SameTotalBothWays(counts)
    /\ GtF(matrix.probs[1][5], F(0))

\* C10 as stated: for every matrix built from well-formed non-negative counts
\* and every window of L recognized bases, the window's raw score is
\* <= maxScore.
C10_MaxScoreBound ==
    matrix.st = "ok" =>
        \A w \in [1..matrix.length -> {"A", "C", "G", "T"}] :
            GeF(matrix.max_score, window_score(matrix, w, matrix.length).v)

====
